---- MODULE Spec2Model ----
(***************************************************************************)
(* The project initializer of src/index.js: a linear script that creates a *)
(* project directory, runs npm in it and writes a fixed set of files.      *)
(* One action per function of the script; the file system and the npm      *)
(* commands are modelled by their effect on the project directory.         *)
(***************************************************************************)
EXTENDS Naturals, Sequences, FiniteSets, TLC

VARIABLES
  projectName,  \* process.argv[2] (line 284)
  pc,           \* the function about to run, or how the process ended
  cwd,          \* process.cwd(): "." is where the tool was started
  disk,         \* the directories of the start location, by name
  cmds,         \* the commands handed to execSync by this process, in order
  stdout,       \* console.log lines of this process
  stderr,       \* console.error lines and the uncaught error of this process
  exitCode,     \* NotExited while the process runs
  trace,        \* the pipeline functions this process has entered, in order
  writes,       \* the paths this process handed to fs.writeFileSync, in order
  error,        \* the kind of the uncaught error, "none" without one
  failedAt,     \* the function that threw, "none" without one
  runs,         \* invocations of the tool so far
  diskAtStart,  \* history: disk when this process started
  diskAtEnter,  \* history: disk when the last pipeline function was entered
  pkgAfterModify \* history: package.json as modifyPackageJSON left it

vars == <<projectName, pc, cwd, disk, cmds, stdout, stderr, exitCode, trace,
          writes, error, failedAt, runs, diskAtStart, diskAtEnter,
          pkgAfterModify>>

\* Invocations of the tool in one behaviour.
MaxRuns == 2

----------------------------------------------------------------------------
\* Values of process.argv[2]: undefined when the argument is missing.

Undefined == [defined |-> FALSE, str |-> ""]

Str(s) == [defined |-> TRUE, str |-> s]

\* The directory names the runs use.
DirNames == {"demo", "app"}

ArgvChoices == {Undefined, Str("")} \cup {Str(n) : n \in DirNames}

\* JavaScript's !v for a string or undefined.
IsFalsyOnlyUndefined(v) == ~v.defined

IsFalsy(v) == ~v.defined \/ v.str = ""

\* `${v}` of a template literal.
TemplateString(v) == IF v.defined THEN v.str ELSE "undefined"

----------------------------------------------------------------------------
\* JSON values and objects.  An object is the sequence of its members in
\* key order, which JSON.parse and JSON.stringify both keep for keys that
\* are not array indices.

JStr(s) == [t |-> "string", str |-> s, members |-> <<>>]

JArr == [t |-> "array", str |-> "", members |-> <<>>]

JObj(ms) == [t |-> "object", str |-> "", members |-> ms]

Member(k, v) == [key |-> k, val |-> v]

Keys(obj) == {obj[i].key : i \in 1..Len(obj)}

\* obj[k] = v of JavaScript: an existing key keeps its place, a new key is
\* added last.
ObjSet(obj, k, v) ==
  IF k \in Keys(obj)
  THEN [i \in 1..Len(obj) |-> IF obj[i].key = k THEN Member(k, v) ELSE obj[i]]
  ELSE Append(obj, Member(k, v))

\* The members of obj whose key is not in ks, in order.
Without(obj, ks) == SelectSeq(obj, LAMBDA m : m.key \notin ks)

----------------------------------------------------------------------------
\* Files.  A JSON file is its object and what follows the closing brace;
\* any other file is its text.

Absent == [kind |-> "absent", text |-> "", json |-> <<>>, eof |-> ""]

TextFile(s) == [kind |-> "file", text |-> s, json |-> <<>>, eof |-> ""]

DirEntry == [kind |-> "dir", text |-> "", json |-> <<>>, eof |-> ""]

JsonFile(obj, eof) == [kind |-> "json", text |-> "", json |-> obj, eof |-> eof]

\* require(path) of a JSON file: the parsed object.
JSONparse(f) == f.json

\* JSON.stringify(obj, null, 2): two-space indented, no final newline.
JSONstringify(obj) == JsonFile(obj, "")

Paths == {"package.json", "package-lock.json", "node_modules", "tsconfig.json",
          ".eslintignore", ".eslintrc.js", ".prettierrc.json", ".env.example",
          "src", "src/index.ts", "README.md", ".gitignore"}

EmptyDir == [p \in Paths |-> Absent]

NoDir == [exists |-> FALSE, files |-> EmptyDir]

Dir(fs) == [exists |-> TRUE, files |-> fs]

\* Directories that may be at the start location before the first run.
ForeignDirs ==
  {Dir(EmptyDir),
   Dir([EmptyDir EXCEPT !["README.md"] = TextFile("notes")])}

----------------------------------------------------------------------------
\* What the external commands leave in the project directory.

\* package.json of `npm init -y` in a fresh directory called n.  The member
\* order depends on the npm release; both orders are drawn.
NpmInitManifests(n) ==
  LET test == JObj(<<Member("test", JStr("echo \"Error: no test specified\" && exit 1"))>>)
  IN  { <<Member("name", JStr(n)), Member("version", JStr("1.0.0")),
          Member("description", JStr("")), Member("main", JStr("index.js")),
          Member("scripts", test), Member("keywords", JArr),
          Member("author", JStr("")), Member("license", JStr("ISC"))>>,
        <<Member("name", JStr(n)), Member("version", JStr("1.0.0")),
          Member("main", JStr("index.js")), Member("scripts", test),
          Member("keywords", JArr), Member("author", JStr("")),
          Member("license", JStr("ISC")), Member("description", JStr("")),
          Member("type", JStr("commonjs"))>> }

DevPackages == <<"@types/node", "@types/superagent", "@typescript-eslint/eslint-plugin",
                 "@typescript-eslint/parser", "eslint", "eslint-config-prettier",
                 "eslint-plugin-prettier", "nodemon", "prettier", "ts-node",
                 "typescript", "typescript-eslint-parser">>

RuntimePackages == <<"dotenv">>

\* The command lines handed to execSync.
InitCommand == "npm init -y"

InstallDevCommand ==
  "npm install --save-dev @types/node @types/superagent @typescript-eslint/eslint-plugin "
  \o "@typescript-eslint/parser eslint eslint-config-prettier eslint-plugin-prettier nodemon prettier "
  \o "ts-node typescript typescript-eslint-parser"

InstallCommand == "npm install --save dotenv"

MkdirSrcCommand == "mkdir src"

\* `npm install --save[-dev] pkgs` in a directory with files fs: the packages
\* are recorded under depKey of package.json, which npm writes back with a
\* final newline, and the lock file and node_modules appear.
NpmInstall(fs, depKey, pkgs) ==
  LET old  == IF fs["package.json"].kind = "json" THEN fs["package.json"].json ELSE <<>>
      deps == JObj([i \in 1..Len(pkgs) |-> Member(pkgs[i], JStr("^resolved"))])
  IN  [fs EXCEPT !["package.json"] = JsonFile(ObjSet(old, depKey, deps), "\n"),
                 !["package-lock.json"] = TextFile("lockfile"),
                 !["node_modules"] = DirEntry]

----------------------------------------------------------------------------
\* The script's own operations.

\* fs.writeFileSync(p, c) on the files fs of the working directory.
WriteFileAppend(fs, p, c) ==
  [fs EXCEPT ![p] = IF @.kind = "file" /\ c.kind = "file"
                    THEN TextFile(@.text \o c.text) ELSE c]

WriteFile(fs, p, c) == [fs EXCEPT ![p] = c]

\* fs.mkdirSync(n) succeeds only for a name that is not there yet.
CanMkdirRecursive(n) == n \in DirNames

CanMkdir(n) == n \in DirNames /\ ~disk[n].exists

PackageScripts ==
  <<Member("dev", JStr("nodemon --watch src/**/*.ts --exec ts-node ./src/app.ts")),
    Member("build", JStr("tsc")),
    Member("start", JStr("node ./dist/index.js")),
    Member("prestart", JStr("npm run build")),
    Member("lint", JStr("eslint --fix --quiet src/**/*.ts")),
    Member("format", JStr("prettier --log-level silent --write src/**/*.ts"))>>

\* The object modifyPackageJSON writes back for the object it read.
ModifiedManifestFresh(packageJson) ==
  <<Member("scripts", JObj(PackageScripts)), Member("main", JStr("src/index.ts"))>>

ModifiedManifest(packageJson) ==
  ObjSet(ObjSet(packageJson, "scripts", JObj(PackageScripts)),
         "main", JStr("src/index.ts"))

\* `# ${projectName}`
ReadmeContentNewline(v) == "# " \o TemplateString(v) \o "\n"

ReadmeContent(v) == "# " \o TemplateString(v)

PrettierConfigInManifest == "package.json"

PrettierConfigPath == ".prettierrc.json"

\* The calls of createProjectStructure, in order.
CallOrderSwapped ==
  <<"createProjectDirectory", "initNPN", "modifyPackageJSON",
    "installDevelopmentDependencies", "createTypeScriptConfiguration",
    "createESLintConfiguration", "installDependencies", "createPrettierConfig",
    "createDotEnvConfig", "createBasicFileStructure", "createReadmeFile",
    "createGitIgnoreFile">>

CallOrder ==
  <<"createProjectDirectory", "initNPN", "modifyPackageJSON",
    "installDevelopmentDependencies", "createTypeScriptConfiguration",
    "createESLintConfiguration", "createPrettierConfig", "installDependencies",
    "createDotEnvConfig", "createBasicFileStructure", "createReadmeFile",
    "createGitIgnoreFile">>

\* Where control goes when f returns: the next call, or line 293.
Return(f) ==
  LET i == CHOOSE i \in 1..Len(CallOrder) : CallOrder[i] = f
  IN  IF i < Len(CallOrder) THEN CallOrder[i + 1] ELSE "complete"

\* No exit status yet: outside 0..255.
NotExited == 256

----------------------------------------------------------------------------
\* The state a process of the tool starts in, on the disk d, with argument v.

ProcessStart(v, d) ==
  /\ projectName = v
  /\ pc = "check"
  /\ cwd = "."
  /\ disk = d
  /\ cmds = <<>>
  /\ stdout = <<>>
  /\ stderr = <<>>
  /\ exitCode = NotExited
  /\ trace = <<>>
  /\ writes = <<>>
  /\ error = "none"
  /\ failedAt = "none"
  /\ diskAtStart = d
  /\ diskAtEnter = d
  /\ pkgAfterModify = Absent

Init ==
  /\ runs = 1
  /\ \E v \in ArgvChoices, d \in [DirNames -> {NoDir} \cup ForeignDirs] :
       ProcessStart(v, d)

\* Entering pipeline function f, whose first statement logs line.
Enter(f, line) ==
  /\ pc = f
  /\ trace' = Append(trace, f)
  /\ stdout' = Append(stdout, line)
  /\ diskAtEnter' = disk

\* An error thrown in f: nothing catches it, so the process ends with
\* status 1 and the error on standard error.
ThrowSwallowed(f, kind) ==
  /\ pc' = Return(f)
  /\ error' = kind
  /\ failedAt' = f
  /\ stderr' = Append(stderr, kind)
  /\ UNCHANGED exitCode

Throw(f, kind) ==
  /\ pc' = "failed"
  /\ error' = kind
  /\ failedAt' = f
  /\ stderr' = Append(stderr, kind)
  /\ exitCode' = 1

\* f returning normally.
Returns(f) ==
  /\ pc' = Return(f)
  /\ UNCHANGED <<error, failedAt, stderr, exitCode>>

Files == disk[cwd].files

SetFiles(fs) == disk' = [disk EXCEPT ![cwd].files = fs]

Frame == UNCHANGED <<projectName, runs, diskAtStart>>

Idle == UNCHANGED diskAtEnter

\* Lines 284-289: no project name.
ExitNoName ==
  /\ pc = "check"
  /\ IsFalsy(projectName)
  /\ stderr' = Append(stderr, "Please provide a project name.")
  /\ exitCode' = 1
  /\ pc' = "exited"
  /\ UNCHANGED <<cwd, disk, cmds, stdout, trace, writes, error, failedAt,
                 pkgAfterModify>>
  /\ Idle
  /\ Frame

\* Lines 291, 7-8: the call of createProjectStructure.
createProjectStructure ==
  /\ pc = "check"
  /\ ~IsFalsy(projectName)
  /\ stdout' = Append(stdout, "Creating project structure for "
                                \o TemplateString(projectName) \o "...")
  /\ pc' = CallOrder[1]
  /\ UNCHANGED <<cwd, disk, cmds, stderr, exitCode, trace, writes, error,
                 failedAt, pkgAfterModify>>
  /\ Idle
  /\ Frame

createProjectDirectory ==
  LET f == "createProjectDirectory"
      n == TemplateString(projectName)
  IN  /\ Enter(f, "Creating project directory...")
      /\ \/ /\ CanMkdir(n)
            /\ disk' = [disk EXCEPT ![n] = IF @.exists THEN @ ELSE Dir(EmptyDir)]
            /\ \/ cwd' = n /\ Returns(f)
               \/ UNCHANGED cwd /\ Throw(f, "IOError")
         \/ /\ UNCHANGED <<disk, cwd>>
            /\ Throw(f, "IOError")
      /\ UNCHANGED <<cmds, writes, pkgAfterModify>>
      /\ Frame

initNPN ==
  LET f == "initNPN"
  IN  /\ Enter(f, "Initializing npm...")
      /\ cmds' = Append(cmds, InitCommand)
      /\ \/ \E m \in NpmInitManifests(cwd) :
              /\ SetFiles([Files EXCEPT !["package.json"] = JsonFile(m, "\n")])
              /\ Returns(f)
         \/ UNCHANGED disk /\ Throw(f, "ExternalCommandError")
      /\ UNCHANGED <<cwd, writes, pkgAfterModify>>
      /\ Frame

modifyPackageJSON ==
  LET f == "modifyPackageJSON"
      packageJson == JSONparse(Files["package.json"])
      content == JSONstringify(ModifiedManifest(packageJson))
  IN  /\ Enter(f, "Modifying package.json file...")
      /\ \/ /\ Files["package.json"].kind = "json"
            /\ SetFiles(WriteFile(Files, "package.json", content))
            /\ writes' = Append(writes, "package.json")
            /\ pkgAfterModify' = content
            /\ Returns(f)
         \/ /\ UNCHANGED <<disk, writes, pkgAfterModify>>
            /\ Throw(f, "IOError")
      /\ UNCHANGED <<cwd, cmds>>
      /\ Frame

installDevelopmentDependencies ==
  LET f == "installDevelopmentDependencies"
  IN  /\ Enter(f, "Initializing npm dev dependencies...")
      /\ cmds' = Append(cmds, InstallDevCommand)
      /\ \/ SetFiles(NpmInstall(Files, "devDependencies", DevPackages)) /\ Returns(f)
         \/ UNCHANGED disk /\ Throw(f, "ExternalCommandError")
      /\ UNCHANGED <<cwd, writes, pkgAfterModify>>
      /\ Frame

installDependenciesNotRun ==
  LET f == "installDependencies"
  IN  /\ Enter(f, "Initializing npm dependencies...")
      /\ Returns(f)
      /\ UNCHANGED <<cwd, disk, cmds, writes, pkgAfterModify>>
      /\ Frame

installDependencies ==
  LET f == "installDependencies"
  IN  /\ Enter(f, "Initializing npm dependencies...")
      /\ cmds' = Append(cmds, InstallCommand)
      /\ \/ SetFiles(NpmInstall(Files, "dependencies", RuntimePackages)) /\ Returns(f)
         \/ UNCHANGED disk /\ Throw(f, "ExternalCommandError")
      /\ UNCHANGED <<cwd, writes, pkgAfterModify>>
      /\ Frame

\* A function whose body is one fs.writeFileSync(p, c).
WritesOneFile(f, line, p, c) ==
  /\ Enter(f, line)
  /\ \/ /\ SetFiles(WriteFile(Files, p, c))
        /\ writes' = Append(writes, p)
        /\ Returns(f)
     \/ UNCHANGED <<disk, writes>> /\ Throw(f, "IOError")
  /\ UNCHANGED <<cwd, cmds, pkgAfterModify>>
  /\ Frame

createTypeScriptConfiguration ==
  WritesOneFile("createTypeScriptConfiguration", "Creating TypeScript configuration...",
                "tsconfig.json", TextFile("tsconfigContent"))

createESLintConfiguration ==
  LET f == "createESLintConfiguration"
      one == WriteFile(Files, ".eslintignore", TextFile("ignoreContent"))
      two == WriteFile(one, ".eslintrc.js", TextFile("rcContent"))
  IN  /\ Enter(f, "Creating ESLint configuration...")
      /\ \/ /\ SetFiles(two)
            /\ writes' = writes \o <<".eslintignore", ".eslintrc.js">>
            /\ Returns(f)
         \/ /\ SetFiles(one)
            /\ writes' = Append(writes, ".eslintignore")
            /\ Throw(f, "IOError")
         \/ UNCHANGED <<disk, writes>> /\ Throw(f, "IOError")
      /\ UNCHANGED <<cwd, cmds, pkgAfterModify>>
      /\ Frame

createPrettierConfig ==
  WritesOneFile("createPrettierConfig", "Creating Prettier configuration...",
                PrettierConfigPath, TextFile("prettierConfigContent"))

createDotEnvConfig ==
  WritesOneFile("createDotEnvConfig", "Creating .env configuration...",
                ".env.example", TextFile("DATABASE_URL=bolt://localhost:7687"))

createBasicFileStructure ==
  LET f == "createBasicFileStructure"
      made == [Files EXCEPT !["src"] = DirEntry]
      one == WriteFile(made, "README.md", TextFile(ReadmeContent(projectName)))
      two == WriteFile(one, "src/index.ts", TextFile("console.log('Hello!');"))
  IN  /\ Enter(f, "Creating basic file structure...")
      /\ cmds' = Append(cmds, MkdirSrcCommand)
      /\ \/ /\ Files["src"].kind = "absent"
            /\ \/ /\ SetFiles(two)
                  /\ writes' = writes \o <<"README.md", "src/index.ts">>
                  /\ Returns(f)
               \/ /\ SetFiles(one)
                  /\ writes' = Append(writes, "README.md")
                  /\ Throw(f, "IOError")
               \/ /\ SetFiles(made)
                  /\ UNCHANGED writes
                  /\ Throw(f, "IOError")
         \/ UNCHANGED <<disk, writes>> /\ Throw(f, "ExternalCommandError")
      /\ UNCHANGED <<cwd, pkgAfterModify>>
      /\ Frame

createReadmeFile ==
  WritesOneFile("createReadmeFile", "Creating README.md file...",
                "README.md", TextFile(ReadmeContent(projectName)))

createGitIgnoreFileOmitted ==
  /\ Enter("createGitIgnoreFile", "Creating git ignore configuration...")
  /\ Returns("createGitIgnoreFile")
  /\ UNCHANGED <<cwd, disk, cmds, writes, pkgAfterModify>>
  /\ Frame

createGitIgnoreFile ==
  WritesOneFile("createGitIgnoreFile", "Creating git ignore configuration...",
                ".gitignore", TextFile("ignoreContent"))

CompletionMessage == "Project initialization complete!"

\* Line 293, and the process ending with status 0.
Complete ==
  /\ pc = "complete"
  /\ stdout' = Append(stdout, CompletionMessage)
  /\ exitCode' = 0
  /\ pc' = "done"
  /\ UNCHANGED <<cwd, disk, cmds, stderr, trace, writes, error, failedAt,
                 pkgAfterModify>>
  /\ Idle
  /\ Frame

Ended == pc \in {"done", "exited", "failed"}

\* The tool is started again at the same location, on the disk as it is.
Rerun ==
  /\ Ended
  /\ runs < MaxRuns
  /\ runs' = runs + 1
  /\ \E v \in ArgvChoices :
       /\ projectName' = v
       /\ pc' = "check"
       /\ cwd' = "."
       /\ cmds' = <<>>
       /\ stdout' = <<>>
       /\ stderr' = <<>>
       /\ exitCode' = NotExited
       /\ trace' = <<>>
       /\ writes' = <<>>
       /\ error' = "none"
       /\ failedAt' = "none"
       /\ diskAtStart' = disk
       /\ diskAtEnter' = disk
       /\ pkgAfterModify' = Absent
       /\ UNCHANGED disk

Next ==
  \/ ExitNoName
  \/ createProjectStructure
  \/ createProjectDirectory
  \/ initNPN
  \/ modifyPackageJSON
  \/ installDevelopmentDependencies
  \/ createTypeScriptConfiguration
  \/ createESLintConfiguration
  \/ createPrettierConfig
  \/ installDependencies
  \/ createDotEnvConfig
  \/ createBasicFileStructure
  \/ createReadmeFile
  \/ createGitIgnoreFile
  \/ Complete
  \/ Rerun

Spec == Init /\ [][Next]_vars

----------------------------------------------------------------------------
\* Properties.

NameGiven == projectName.defined /\ projectName.str # ""

ProjectFiles == disk[projectName.str].files

Present(f) == f.kind # "absent"

Range(seq) == {seq[i] : i \in 1..Len(seq)}

\* Pipeline function f was entered and returned normally.
Returned(f) == f \in Range(trace) /\ failedAt # f

\* C1: the pipeline functions are entered in the one fixed order of the
\* twelve steps, each exactly once and each only when all the steps before it
\* have returned; a run that completes has entered all twelve, and a run is
\* only ever cut short at the step that threw.
C1_FixedOrder ==
  LET Fixed == <<"createProjectDirectory", "initNPN", "modifyPackageJSON",
                 "installDevelopmentDependencies", "createTypeScriptConfiguration",
                 "createESLintConfiguration", "createPrettierConfig",
                 "installDependencies", "createDotEnvConfig",
                 "createBasicFileStructure", "createReadmeFile",
                 "createGitIgnoreFile">>
  IN  /\ Len(trace) <= 12
      /\ \A i \in 1..Len(trace) : trace[i] = Fixed[i]
      /\ \A i \in 1..12 : pc = Fixed[i] => Len(trace) = i - 1
      /\ pc \in {"complete", "done"} => trace = Fixed
      /\ pc = "failed" => trace # <<>> /\ failedAt = trace[Len(trace)]
      /\ pc \in {"check", "exited"} => trace = <<>>

C1_Witness == pc = "done" /\ Len(trace) = 12 /\ NameGiven

\* C2: with a missing or empty project name the process prints the message
\* on standard error and exits with status 1, having entered no pipeline
\* step, changed nothing on disk and invoked no command.
C2_NoNameNoEffect ==
  (~projectName.defined \/ projectName.str = "") =>
     /\ pc \in {"check", "exited"}
     /\ disk = diskAtStart
     /\ cwd = "."
     /\ cmds = <<>>
     /\ writes = <<>>
     /\ trace = <<>>
     /\ stdout = <<>>
     /\ pc = "exited" => /\ exitCode = 1
                         /\ stderr = <<"Please provide a project name.">>

C2_Witness == pc = "exited" /\ projectName.defined /\ projectName.str = ""

\* C3: when a directory of the project name is already at the start
\* location, the run fails with IOError in createProjectDirectory with the
\* working directory unchanged, no command invoked, no file written and the
\* disk, that directory included, as it was.
C3_ExistingDirectoryFailsFirst ==
  (NameGiven /\ diskAtStart[projectName.str].exists) =>
     /\ pc \in {"check", "createProjectDirectory", "failed"}
     /\ cwd = "."
     /\ cmds = <<>>
     /\ writes = <<>>
     /\ disk = diskAtStart
     /\ pc = "failed" => /\ error = "IOError"
                         /\ failedAt = "createProjectDirectory"
                         /\ trace = <<"createProjectDirectory">>
                         /\ exitCode = 1

\* The second run with the name of a completed first run has failed.
C3_Witness ==
  /\ runs = 2
  /\ pc = "failed"
  /\ NameGiven
  /\ Present(diskAtStart[projectName.str].files[".gitignore"])

\* C4: an error ends the run at once, with status 1 and without the
\* completion message: the function that threw is the last one entered, and
\* whatever was on disk when it was entered is still there unchanged.
C4_FailureStopsNoRollback ==
  /\ error # "none" => pc = "failed"
  /\ pc = "failed" =>
       /\ error \in {"IOError", "ExternalCommandError"}
       /\ exitCode = 1
       /\ CompletionMessage \notin Range(stdout)
       /\ failedAt = trace[Len(trace)]
       /\ \A d \in DirNames :
            /\ diskAtEnter[d].exists => disk[d].exists
            /\ \A p \in Paths :
                 Present(diskAtEnter[d].files[p]) =>
                   disk[d].files[p] = diskAtEnter[d].files[p]

\* A run that failed in the middle, with files of earlier steps on disk.
C4_Witness ==
  /\ pc = "failed"
  /\ failedAt = "createDotEnvConfig"
  /\ Present(ProjectFiles["tsconfig.json"])

\* C5: a run that completes leaves the project directory with the nine
\* files the script writes, these being all it wrote, and the completion
\* message is on standard output exactly when the run has completed.
C5_FileSetOnSuccess ==
  LET Nine == {"package.json", "tsconfig.json", ".eslintignore", ".eslintrc.js",
               ".prettierrc.json", ".env.example", "README.md", "src/index.ts",
               ".gitignore"}
  IN  /\ pc = "done" =>
           /\ NameGiven
           /\ disk[projectName.str].exists
           /\ Range(writes) = Nine
           /\ \A p \in Nine : ProjectFiles[p].kind \in {"file", "json"}
           /\ exitCode = 0
      /\ CompletionMessage \in Range(stdout) <=> pc = "done"

C5_Witness == pc = "done" /\ exitCode = 0 /\ Present(ProjectFiles[".gitignore"])

\* C6: whenever README.md is in the directory the run created, its content
\* is "# " followed by the project name and nothing else.
C6_ReadmeContent ==
  (NameGiven /\ cwd = projectName.str /\ Present(ProjectFiles["README.md"])) =>
     ProjectFiles["README.md"] = TextFile("# " \o projectName.str)

\* README.md after createReadmeFile has overwritten the placeholder.
C6_Witness ==
  /\ pc = "createGitIgnoreFile"
  /\ NameGiven
  /\ Present(ProjectFiles["README.md"])
  /\ Len(writes) = 9

\* A pipeline function f returning normally in this step.
Completes(f) == pc = f /\ pc' \notin {f, "failed"}

\* C7: modifyPackageJSON leaves package.json with main "src/index.ts", with
\* the six fixed scripts as its whole scripts member, and with every other
\* member of the file npm init wrote at its value and in the same order.
C7_ManifestRewrite ==
  [][Completes("modifyPackageJSON") =>
       LET old == disk[cwd].files["package.json"].json
           new == disk'[cwd].files["package.json"].json
           Six == <<Member("dev", JStr("nodemon --watch src/**/*.ts --exec ts-node ./src/app.ts")),
                    Member("build", JStr("tsc")),
                    Member("start", JStr("node ./dist/index.js")),
                    Member("prestart", JStr("npm run build")),
                    Member("lint", JStr("eslint --fix --quiet src/**/*.ts")),
                    Member("format", JStr("prettier --log-level silent --write src/**/*.ts"))>>
       IN  /\ Without(new, {"main"}) # new
           /\ \A i \in 1..Len(new) :
                /\ new[i].key = "main" => new[i].val = JStr("src/index.ts")
                /\ new[i].key = "scripts" => new[i].val = JObj(Six)
           /\ Len(Without(new, {"scripts"})) = Len(new) - 1
           /\ Without(new, {"scripts", "main"}) = Without(old, {"scripts", "main"})
           /\ Len(Without(old, {"scripts", "main"})) >= 6
  ]_vars

\* package.json of the project "app" right after modifyPackageJSON.
C7_Witness ==
  /\ pc = "installDevelopmentDependencies"
  /\ projectName = Str("app")
  /\ ProjectFiles["package.json"] = pkgAfterModify
  /\ pkgAfterModify.kind = "json"

\* C8 as stated: at the end of a successful run package.json is what
\* modifyPackageJSON wrote.
C8_Original ==
  pc = "done" => ProjectFiles["package.json"] = pkgAfterModify

\* C8 as amended: the script itself writes package.json once, in
\* modifyPackageJSON; from then on the file holds the members of that write,
\* unchanged and in order, followed only by the devDependencies and
\* dependencies members that the install commands of steps 4 and 8 add.
C8_ManifestAfterModify ==
  (NameGiven /\ cwd = projectName.str /\ Present(pkgAfterModify)) =>
     LET now == ProjectFiles["package.json"]
         Installed == {"devDependencies", "dependencies"}
     IN  /\ now.kind = "json"
         /\ Without(now.json, Installed) = pkgAfterModify.json
         /\ Keys(pkgAfterModify.json) \cap Installed = {}
         /\ "devDependencies" \in Keys(now.json)
              <=> Returned("installDevelopmentDependencies")
         /\ "dependencies" \in Keys(now.json)
              <=> Returned("installDependencies")
         /\ Len(SelectSeq(writes, LAMBDA w : w = "package.json")) = 1
         /\ writes[1] = "package.json"

C8_Witness ==
  /\ pc = "done"
  /\ "dependencies" \in Keys(ProjectFiles["package.json"].json)
  /\ "devDependencies" \in Keys(ProjectFiles["package.json"].json)

\* C9 as stated: a complete run invokes two commands, and every step after
\* the first runs in the project directory.
C9_Original ==
  /\ pc = "done" => Len(cmds) = 2
  /\ (pc \notin {"check", "exited", "createProjectDirectory"}
        /\ failedAt # "createProjectDirectory") => cwd = projectName.str

\* C9 as amended: a complete run invokes four commands (npm init, the two
\* npm installs and mkdir src), and every step after the first runs in the
\* project directory.
C9_CommandsAndCwd ==
  /\ pc = "done" =>
       /\ Len(cmds) = 4
       /\ cmds[1] = "npm init -y"
       /\ cmds[3] = "npm install --save dotenv"
       /\ cmds[4] = "mkdir src"
  /\ (pc \notin {"check", "exited", "createProjectDirectory"}
        /\ failedAt # "createProjectDirectory") =>
       /\ cwd = projectName.str
       /\ disk[cwd].exists
  /\ pc \in {"check", "exited", "createProjectDirectory"} => cwd = "."

C9_Witness == pc = "done" /\ Len(cmds) = 4 /\ cwd = projectName.str

\* The paths of the working directory that differ before and after a step.
Changed == {p \in Paths : disk'[cwd].files[p] # disk[cwd].files[p]}

\* C10 as stated: each of steps 5, 6, 7, 9, 10, 11 and 12 writes one file
\* and invokes no command.
C10_Original ==
  [][\A f \in {"createTypeScriptConfiguration", "createESLintConfiguration",
               "createPrettierConfig", "createDotEnvConfig",
               "createBasicFileStructure", "createReadmeFile",
               "createGitIgnoreFile"} :
       Completes(f) => Len(writes') = Len(writes) + 1 /\ cmds' = cmds
  ]_vars

\* C10 as amended: steps 5, 7, 9, 11 and 12 each write one file and invoke
\* no command; step 6 writes two files and invokes no command; step 10
\* invokes mkdir src and writes two files; a step changes nothing else in
\* the directory, and a written path holds the new content only, as
\* README.md does after step 11 overwrites the placeholder of step 10.
C10_FileWritingSteps ==
  [][/\ \A f \in {"createTypeScriptConfiguration", "createPrettierConfig",
                  "createDotEnvConfig", "createReadmeFile", "createGitIgnoreFile"} :
          Completes(f) =>
            /\ Len(writes') = Len(writes) + 1
            /\ cmds' = cmds
            /\ Changed \subseteq {writes'[Len(writes')]}
            /\ disk'[cwd].files[writes'[Len(writes')]].kind = "file"
     /\ Completes("createESLintConfiguration") =>
            /\ writes' = writes \o <<".eslintignore", ".eslintrc.js">>
            /\ cmds' = cmds
            /\ Changed = {".eslintignore", ".eslintrc.js"}
     /\ Completes("createBasicFileStructure") =>
            /\ writes' = writes \o <<"README.md", "src/index.ts">>
            /\ cmds' = Append(cmds, "mkdir src")
            /\ Changed = {"src", "README.md", "src/index.ts"}
     /\ Completes("createReadmeFile") =>
            /\ Present(disk[cwd].files["README.md"])
            /\ writes'[Len(writes')] = "README.md"
            /\ disk'[cwd].files["README.md"] = TextFile("# " \o projectName.str)
  ]_vars

C10_Witness ==
  /\ pc = "createGitIgnoreFile"
  /\ writes = <<"package.json", "tsconfig.json", ".eslintignore", ".eslintrc.js",
                ".prettierrc.json", ".env.example", "README.md", "src/index.ts",
                "README.md">>

====
